---- MODULE Spec2Model ----
(***************************************************************************)
(* Order fulfillment of ldc-shop: processOrderFulfillment and              *)
(* fulfillSiyuanToken (src/unnamed/part_000) over the orders / cards /     *)
(* products tables of a READ COMMITTED relational store with row locks,    *)
(* the external token issuer createTokenByLinuxDoId                        *)
(* (src/src/lib/siyuan-share.ts), and the issuer client of the worker      *)
(* build, generateSiyuanShareToken                                         *)
(* (src/_workers_next/src/lib/siyuan-share.ts).                            *)
(*                                                                         *)
(* Every call is a process that moves from one await to the next: a step   *)
(* is the answer to the request the call is waiting for (a database round  *)
(* trip, a login, an issuer request) together with the JavaScript that     *)
(* runs until the next request is sent.                                    *)
(***************************************************************************)
EXTENDS Integers, Sequences, FiniteSets, TLC

\* ---------------------------------------------------------------- bounds
NumCalls == 2        \* concurrent processOrderFulfillment calls
NumCards == 3        \* rows of the cards table
MaxQty == 3          \* largest quantity of the card order o1
MaxNow == 2          \* the clock runs from 1 to MaxNow (minutes) by minutes
MaxHours == 25       \* and for at most MaxHours hours by hours
PoolN == 3           \* N of the N-orders / N-cards scenario

\* ---------------------------------------------------- program constants
ReservationTTL == 1  \* INTERVAL '1 minute'
RefreshMargin == 60  \* 3600000 ms, in minutes
JwtLifetime == 1380  \* 23 * 3600 * 1000 ms, in minutes
ExpiryBuffer == 5    \* 5 * 60 * 1000 ms, in minutes (the worker's client)

\* ------------------------------------------------------------ null values
NULL == "NULL"       \* a null string column
NoTime == -1         \* a null reserved_at
NoTrade == 0         \* a null tradeNo
NoQuantity == -1     \* params.quantity left undefined

\* used_at, paidAt and deliveredAt are kept as null or written: the value of
\* NOW() / new Date() they receive is not read anywhere in the program
Written == "written"

Statuses == {"pending", "cancelled", "paid", "delivered"}

VARIABLES
    orders,      \* orders table (committed rows): orderId -> row
    cards,       \* cards table (committed rows): id -> row
    lockedBy,    \* card id -> the call whose open transaction holds the row lock (0: none)
    newRow,      \* card id -> the uncommitted row version written by the lock holder
    orderLock,   \* orderId -> the call whose open transaction holds the order row lock (0: none)
    txOrder,     \* call -> the uncommitted order row it wrote (only while it holds orderLock)
    legacy,      \* TRUE when the cards table has no reserved_order_id / reserved_at columns
    aborting,    \* TRUE when a failed statement leaves its transaction aborted (as
                 \* PostgreSQL does), FALSE when only the statement is rolled back
    now,         \* the clock: Date.now(), in minutes
    txNow,       \* call -> NOW() of its open transaction: the clock at its BEGIN
    issued,      \* number of tokens the external issuer has created so far
    pc,          \* call -> the await it is at in processOrderFulfillment (or in
                 \* getAdminJwt, when it calls that alone)
    orderId,     \* call -> its orderId argument
    paidAmount,  \* call -> its paidAmount argument
    tradeNo,     \* call -> its tradeNo argument
    order,       \* call -> the row read at the top of the call
    cardKeys,    \* call -> cardKeys of the transaction callback (while the reserved
                 \* UPDATE runs: the rows it has to return so far)
    supportsReservation, \* call -> the flag of the transaction callback
    error,       \* call -> the error the last failed statement of its transaction raised
    todo,        \* call -> rows its running statement has still to visit: in the order
                 \* of its scan for the reserved UPDATE, which waits for the row it
                 \* is at; by ascending id for the general-pool subquery, which
                 \* waits for none and visits them in any order
    poolKeys,    \* call -> ids of the cards its general-pool statement updated
    resvKeys,    \* call -> ids of the cards its reserved statement updated
    tokenKeys,   \* call -> tokenKeys of fulfillSiyuanToken
    issuerCalls, \* call -> result.success of the createTokenByLinuxDoId calls it made
    cachedJwt,   \* the cached admin credential of siyuan-share.ts (NULL: none)
    jwtExpiresAt, \* its recorded expiry, in minutes of the clock (0 at start)
    configured,  \* TRUE when the API url, username and password are all set
    jwtCall,     \* the last call of getAdminJwt: when, the cache it found, whether it
                 \* sent a login request, the credential it returned at once
    result,      \* call -> what the call returned or threw
    claims,      \* history: the committed transactions that marked cards used
    cachedJwtToken,  \* the cached admin credential of the worker's client (NULL: none)
    cachedJwtExpiry, \* its recorded expiry, in minutes of the clock (0 at start)
    params,      \* call -> the params of its generateSiyuanShareToken call
    tokens,      \* call -> tokens of generateSiyuanShareToken
    adminNow,    \* call -> now of the getAdminToken call it is in (line 46)
    user,        \* call -> id of the user createUser returned for the current unit
    users        \* number of users the external issuer has created so far

vars == <<orders, cards, lockedBy, newRow, orderLock, txOrder, legacy, aborting, now,
          txNow, issued, pc, orderId, paidAmount, tradeNo, order, cardKeys, supportsReservation,
          error, todo,
          poolKeys, resvKeys, tokenKeys, issuerCalls, cachedJwt, jwtExpiresAt,
          configured, jwtCall, result, claims, cachedJwtToken, cachedJwtExpiry,
          params, tokens, adminNow, user, users>>

store == <<legacy, aborting>>
dbVars == <<orders, cards, lockedBy, newRow, orderLock, txOrder, store>>
args == <<orderId, paidAmount, tradeNo>>
cardLocals == <<cardKeys, supportsReservation, error, todo, poolKeys, resvKeys, txNow>>
jwtVars == <<cachedJwt, jwtExpiresAt, configured, jwtCall>>
workerVars == <<cachedJwtToken, cachedJwtExpiry, params, tokens, adminNow, user, users>>
issuerVars == <<tokenKeys, issuerCalls, jwtVars, workerVars>>

Procs == DOMAIN pc
CardIds == DOMAIN cards
OrderIds == DOMAIN orders

\* ------------------------------------------------------- pure operators

\* products table: id -> fulfillmentType (a product without a row has none)
products == [pA |-> "card", pB |-> "card", pT |-> "siyuan_token"]

\* isPaymentOrder(productId): the product is the pure payment product
isPaymentOrder(productId) == productId = "pP"

\* product?.fulfillmentType of db.query.products.findFirst
fulfillmentType(productId) ==
    IF productId \in DOMAIN products THEN products[productId] ELSE NULL

\* An amount is a decimal string <<units, 256ths>>; parseFloat gives the number,
\* counted in 1/256 (such numbers and their differences are exact doubles).
parseFloat(amount) == amount[1] * 256 + amount[2]

Abs(x) == IF x < 0 THEN -x ELSE x

\* mutant: only an underpayment is rejected (Math.abs dropped)
AmountMismatchOneSided(paid, orderMoney) == (orderMoney - paid) * 100 > 256

\* Math.abs(paidAmount - orderMoney) > 0.01, both counted in 1/256:
\* |d|/256 > 1/100  (the double 0.01 lies strictly between 2/256 and 3/256)
AmountMismatch(paid, orderMoney) == Abs(paid - orderMoney) * 100 > 256

\* order.quantity || 1   (0 stands for a null or zero quantity)
Quantity(o) == IF o.quantity = 0 THEN 1 ELSE o.quantity

\* COALESCE(is_used, false) = false
Unused(card) == (IF card.is_used = NULL THEN "false" ELSE card.is_used) = "false"

\* keys.join('\n'): the keys separated by the newline character NL
NL == 0
RECURSIVE join(_)
join(keys) ==
    IF Len(keys) = 0 THEN <<>>
    ELSE IF Len(keys) = 1 THEN <<keys[1]>>
    ELSE <<keys[1], NL>> \o join(Tail(keys))

\* the keys of a joined cardKey column (its lines)
KeysOf(cardKey) == {cardKey[k] : k \in {j \in 1..Len(cardKey) : cardKey[j] # NL}}
NumKeys(cardKey) == Cardinality({j \in 1..Len(cardKey) : cardKey[j] # NL})


\* the orders in which a statement may visit, or return, the rows S
Scans(S) ==
    {s \in [1..Cardinality(S) -> S] : \A i, j \in 1..Cardinality(S) : s[i] = s[j] => i = j}

\* the rows of a scan
Rows(scan) == {scan[k] : k \in 1..Len(scan)}

\* RETURNING card_key: the keys of the rows updated, in the order the statement
\* returns them
Returning(rows) == [k \in 1..Len(rows) |-> cards[rows[k]].card_key]

\* the token the issuer creates as its n-th
TokenOf(n) == 100 + n

\* the credentials a login may return
Jwts == {"jwt1", "jwt2"}

\* before the first call of getAdminJwt
NoJwtCall == [at |-> NoTime, was |-> <<NULL, 0>>, login |-> FALSE, result |-> NULL]

\* before generateSiyuanShareToken is called
NoParams == [orderId |-> NULL, quantity |-> NoQuantity]

\* what generateSiyuanShareToken returns or throws
Returned == "tokens"
CreateUserFailed == "throw_create_user_failed"
CreateTokenFailed == "throw_create_token_failed"

\* what getAdminJwt does when it does not return a cached credential
Login == "login"
NotConfigured == "throw_not_configured"
LoginFailed == "throw_login_failed"

\* mutant: the cached credential is used until its recorded expiry
CacheValidUntilExpiry(jwt, expires, t) == jwt # NULL /\ t < expires

\* cachedJwt && Date.now() < jwtExpiresAt - 3600000 (line 15)
CacheValid(jwt, expires, t) == jwt # NULL /\ t < expires - RefreshMargin

\* getAdminJwt, lines 13-30, up to its await: at time t with the cache
\* <<jwt, expires>> it returns the cached credential, throws because nothing is
\* configured, or sends the login request
getAdminJwt(jwt, expires, t, cfg) ==
    IF CacheValid(jwt, expires, t) THEN jwt
    ELSE IF ~cfg THEN NotConfigured
    ELSE Login

\* getAdminJwt, lines 32-43: the login answers resp (NULL: it fails) at time t;
\* gives the cache after it and what the call returns or throws
LoginAnswer(jwt, expires, t, resp) ==
    IF resp = NULL
    THEN [cachedJwt |-> jwt, jwtExpiresAt |-> expires, result |-> LoginFailed]
    ELSE [cachedJwt |-> resp, jwtExpiresAt |-> t + JwtLifetime, result |-> resp]

\* paidAmount arguments of the calls, in 1/256: every order costs 2.5 = 640/256, so
\* these are off by 3/256 (more than 0.01), 2/256 (less than 0.01) or 0
PaidAmounts == {637, 638, 640, 642, 643}
Exact == parseFloat(<<2, 128>>)

\* orderId arguments of the calls: the orders of the table and one that is not there
OrderArgs == OrderIds \cup {"o0"}
CardOrders == {"o1", "o2"}

\* A database error: the words of its message, its code field and the words of
\* its detail field. JSON.stringify(error) holds the enumerable fields (code,
\* detail), not the message.
NoError == [message |-> <<>>, code |-> NULL, detail |-> <<>>]

\* column "reserved_order_id" of relation "cards" does not exist
UndefinedColumn ==
    [message |-> <<"column", "reserved_order_id", "of relation cards does not exist">>,
     code |-> "42703", detail |-> <<>>]

\* current transaction is aborted, commands ignored until end of transaction block
InFailedTransaction ==
    [message |-> <<"current transaction is aborted">>, code |-> "25P02", detail |-> <<>>]

\* deadlock detected; the detail names the processes and transactions involved
DeadlockDetected(pid) ==
    [message |-> <<"deadlock detected">>, code |-> "40P01",
     detail |-> <<"Process", pid, "waits for ShareLock on transaction">>]

\* the process ids a deadlock report may name
Pids == {"42703", "42801"}

\* the errors a statement may raise: recognised by the first, the second or the
\* third test of lines 120-124 only (the third by the code field or by the
\* detail field), or by none of them
DbErrors ==
    {UndefinedColumn,
     [message |-> <<"column", "reserved_order_id", "does not exist">>, code |-> NULL,
      detail |-> <<>>],
     [message |-> <<"column", "reserved_at", "does not exist">>, code |-> NULL,
      detail |-> <<>>],
     [message |-> <<"undefined column">>, code |-> "42703", detail |-> <<>>]}
        \cup {DeadlockDetected(pid) : pid \in Pids}

\* error?.message?.includes(word), errorString.includes(word)
includes(message, word) == \E k \in 1..Len(message) : message[k] = word

\* JSON.stringify(error) (line 119): the enumerable fields of the error
stringify(err) == <<err.code>> \o err.detail

\* mutant: every error of the reserved claim is taken for a schema mismatch
AnyError(err) == TRUE

\* lines 119-124: the error is the recognised schema mismatch
SchemaMismatch(err) ==
    \/ includes(err.message, "reserved_order_id")
    \/ includes(err.message, "reserved_at")
    \/ includes(stringify(err), "42703")

\* ------------------------------------------------------------------ Init

NoOrder == [productId |-> NULL, quantity |-> 0, amount |-> <<0, 0>>, status |-> NULL,
            cardKey |-> <<>>, tradeNo |-> NoTrade, paidAt |-> NULL,
            deliveredAt |-> NULL, userId |-> NULL]

NewOrder(productId, quantity, status, userId) ==
    [productId |-> productId, quantity |-> quantity, amount |-> <<2, 128>>,
     status |-> status, cardKey |-> <<>>, tradeNo |-> NoTrade, paidAt |-> NULL,
     deliveredAt |-> NULL, userId |-> userId]

NewCard(c, productId, reservedFor) ==
    [product_id |-> productId, card_key |-> 10 + c,
     is_used |-> IF c = 2 THEN NULL ELSE "false", used_at |-> NULL,
     reserved_order_id |-> reservedFor,
     reserved_at |-> IF reservedFor = NULL THEN NoTime ELSE 0]

ReservedCard(c, productId, reservedFor, at) ==
    [NewCard(c, productId, reservedFor) EXCEPT
        !.reserved_at = IF reservedFor = NULL THEN NoTime ELSE at]

\* when the reservations were made: at minute 0, a minute before the clock
\* starts, or two minutes earlier (they have expired)
ReservedAts == {0, 0 - 2 * ReservationTTL}

InitLocals(n) ==
    /\ pc = [p \in 1..n |-> "idle"]
    /\ orderId = [p \in 1..n |-> NULL]
    /\ paidAmount = [p \in 1..n |-> 0]
    /\ tradeNo = [p \in 1..n |-> NoTrade]
    /\ order = [p \in 1..n |-> NoOrder]
    /\ cardKeys = [p \in 1..n |-> <<>>]
    /\ supportsReservation = [p \in 1..n |-> TRUE]
    /\ error = [p \in 1..n |-> NoError]
    /\ todo = [p \in 1..n |-> <<>>]
    /\ txNow = [p \in 1..n |-> NoTime]
    /\ poolKeys = [p \in 1..n |-> {}]
    /\ resvKeys = [p \in 1..n |-> {}]
    /\ tokenKeys = [p \in 1..n |-> <<>>]
    /\ issuerCalls = [p \in 1..n |-> <<>>]
    /\ cachedJwt = NULL
    /\ jwtExpiresAt = 0
    /\ jwtCall = NoJwtCall
    /\ result = [p \in 1..n |-> NULL]
    /\ txOrder = [p \in 1..n |-> NoOrder]
    /\ claims = {}
    /\ issued = 0
    /\ now = 1
    /\ params = [p \in 1..n |-> NoParams]
    /\ tokens = [p \in 1..n |-> <<>>]
    /\ adminNow = [p \in 1..n |-> NoTime]
    /\ user = [p \in 1..n |-> 0]
    /\ users = 0

InitCalls(n) ==
    /\ InitLocals(n)
    /\ cachedJwtToken = NULL
    /\ cachedJwtExpiry = 0

InitLocks ==
    /\ lockedBy = [c \in CardIds |-> 0]
    /\ newRow = cards
    /\ orderLock = [o \in OrderIds |-> 0]

\* Two card orders of product pA, two token orders, one payment order; o1 asks
\* for up to as many cards as the table holds of its product. Card 1 is
\* of product pB, the others of pA, each free or reserved for o1 or o2. The
\* reservation step is not part of this program and the reserved UPDATE of line
\* 111 does not look at product_id, so a reservation may tie any card to an
\* order: card 1 is free, or reserved for o1 while every pA card is free. At
\* most NumCards - 1 cards are reserved.
Init ==
    /\ \E q \in 1..(NumCards - 1) :
        orders = [o1 |-> NewOrder("pA", q, "pending", "u1"),
                  o2 |-> NewOrder("pA", 1, "cancelled", "u1"),
                  o3 |-> NewOrder("pT", 2, "pending", "u1"),
                  o4 |-> NewOrder("pP", 1, "pending", "u1"),
                  o5 |-> NewOrder("pT", 0, "cancelled", NULL)]
    /\ \E a \in 0..(NumCards - 1), b \in 0..1, at \in ReservedAts, r1 \in {NULL, "o1"} :
        /\ a + b + (IF r1 = NULL THEN 0 ELSE 1) <= NumCards - 1
        /\ a + b = 0 => at = 0
        /\ r1 # NULL => (a = 0 /\ b = 0 /\ at = 0)
        /\ cards = [c \in 1..NumCards |->
                      IF c = 1 THEN NewCard(c, "pB", r1)
                      ELSE ReservedCard(c, "pA",
                                        IF c - 1 <= a THEN "o1"
                                        ELSE IF c - 1 <= a + b THEN "o2" ELSE NULL, at)]
    /\ legacy = FALSE
    /\ aborting = TRUE
    /\ configured = TRUE
    /\ InitLocks
    /\ InitCalls(NumCalls)

\* --------------------------------------------------------------- actions

Return(p, r) ==
    /\ pc' = [pc EXCEPT ![p] = "done"]
    /\ result' = [result EXCEPT ![p] = r]

Goto(p, label) ==
    /\ pc' = [pc EXCEPT ![p] = label]
    /\ UNCHANGED result

\* mutant: a paid order is processed again (status !== 'delivered')
PendingOrPaid(o) == o.status # "delivered"

Pending(o) == o.status = "pending" \/ o.status = "cancelled"

\* where a call goes after it has read its order (lines 59-84)
AfterRead(o, paid) ==
    IF o = NoOrder THEN "throw_not_found"
    ELSE IF AmountMismatch(paid, parseFloat(o.amount)) THEN "throw_amount_mismatch"
    ELSE IF isPaymentOrder(o.productId)
         THEN (IF Pending(o) THEN "payUpdate" ELSE "processed")
    ELSE IF Pending(o) THEN "readProduct"
    ELSE "already_processed"

\* where it goes after it has read the product (lines 90-97, 8-9)
AfterProduct(o) ==
    IF fulfillmentType(o.productId) = "siyuan_token"
    THEN (IF o.userId = NULL THEN "noUserUpdate" ELSE "unit")
    ELSE "begin"

Outcomes == {"throw_not_found", "throw_amount_mismatch", "processed", "already_processed"}

\* processOrderFulfillment(orderId, paidAmount, tradeNo), lines 54-84: read the
\* order, verify the amount, branch on the payment product and the status read.
\* Calls are numbered in the order they start.
processOrderFulfillment(p, o, paid, t) ==
    /\ pc[p] = "idle"
    /\ \A q \in Procs : q < p => pc[q] # "idle"
    /\ LET row == IF o \in OrderIds THEN orders[o] ELSE NoOrder
           next == AfterRead(row, paid)
       IN /\ orderId' = [orderId EXCEPT ![p] = o]
          /\ paidAmount' = [paidAmount EXCEPT ![p] = paid]
          /\ tradeNo' = [tradeNo EXCEPT ![p] = t]
          /\ order' = [order EXCEPT ![p] = row]
          /\ IF next \in Outcomes THEN Return(p, next) ELSE Goto(p, next)
    /\ UNCHANGED <<dbVars, now, issued, cardLocals, issuerVars, claims>>


\* line 97: BEGIN. NOW() is the start time of the transaction in every
\* statement that follows
Begin(p) ==
    /\ pc[p] = "begin"
    /\ txNow' = [txNow EXCEPT ![p] = now]
    /\ Goto(p, "claimReserved")
    /\ UNCHANGED <<dbVars, now, issued, args, order, cardKeys, supportsReservation,
                   error, todo, poolKeys, resvKeys, issuerVars, claims>>

\* mutant: the update marks the order delivered (status, deliveredAt) as the
\* fulfillment branches do
MarkPaidDelivered(p) ==
    /\ orderLock[orderId[p]] = 0
    /\ orders' = [orders EXCEPT ![orderId[p]] =
                     [@ EXCEPT !.status = "delivered", !.paidAt = Written,
                               !.deliveredAt = Written, !.tradeNo = tradeNo[p]]]
    /\ Return(p, "processed")
    /\ UNCHANGED <<cards, lockedBy, newRow, orderLock, txOrder, store, now, issued,
                   args, order, cardLocals, issuerVars, claims>>

\* UPDATE orders SET status = 'paid', paidAt, tradeNo WHERE orderId (autocommit):
\* it waits for a transaction that holds the row
MarkPaid(p) ==
    /\ orderLock[orderId[p]] = 0
    /\ orders' = [orders EXCEPT ![orderId[p]] =
                     [@ EXCEPT !.status = "paid", !.paidAt = Written, !.tradeNo = tradeNo[p]]]
    /\ Return(p, "processed")
    /\ UNCHANGED <<cards, lockedBy, newRow, orderLock, txOrder, store, now, issued,
                   args, order, cardLocals, issuerVars, claims>>

\* lines 71-81: a pending payment order is flipped to paid
PayUpdate(p) ==
    /\ pc[p] = "payUpdate"
    /\ MarkPaid(p)

\* fulfillSiyuanToken, lines 8-15: no userId on the order
NoUserUpdate(p) ==
    /\ pc[p] = "noUserUpdate"
    /\ MarkPaid(p)

\* createTokenByLinuxDoId (lines 60-102) once getAdminJwt has returned jwt or
\* thrown (NULL): the n-th token when the issuer creates one, a failure when
\* getAdminJwt threw or the issuer answers with an error
createTokenByLinuxDoId(jwt, ok, n) ==
    IF jwt # NULL /\ ok THEN [success |-> TRUE, token |-> TokenOf(n)]
    ELSE [success |-> FALSE, token |-> 0]


\* mutant: the loop goes on to the next unit after a failure (continue for break)
TokenLoopContinue(res, k, quantity) ==
    IF k + 1 < quantity THEN "unit" ELSE "tokenUpdate"

\* fulfillSiyuanToken, lines 20-31: after the result res of unit k the loop goes
\* on to the next unit, or ends (the quantity is reached, or the unit failed)
TokenLoop(res, k, quantity) ==
    IF res.success /\ res.token # 0
    THEN (IF k + 1 < quantity THEN "unit" ELSE "tokenUpdate")
    ELSE "tokenUpdate"

\* the record of a call of getAdminJwt made now
JwtTest ==
    LET jwt == getAdminJwt(cachedJwt, jwtExpiresAt, now, configured)
    IN [at |-> now, was |-> <<cachedJwt, jwtExpiresAt>>, login |-> jwt = Login,
        result |-> IF jwt \in {Login, NotConfigured} THEN NULL ELSE jwt]

\* lines 20-24 and 65-77: unit k of the loop starts, got being the results so
\* far: createTokenByLinuxDoId calls getAdminJwt, which returns the cached
\* credential (the issuer request is sent), sends a login request, or throws
\* (the unit has failed, line 96). Gives the await the call stops at and the
\* results it has then.
RECURSIVE StartUnit(_, _, _)
StartUnit(k, quantity, got) ==
    LET jwt == getAdminJwt(cachedJwt, jwtExpiresAt, now, configured)
        res == createTokenByLinuxDoId(NULL, FALSE, 0)
    IN IF jwt = Login THEN [pc |-> "login", calls |-> got]
       ELSE IF jwt # NotConfigured THEN [pc |-> "token", calls |-> got]
       ELSE IF TokenLoop(res, k, quantity) = "unit"
            THEN StartUnit(k + 1, quantity, Append(got, res.success))
       ELSE [pc |-> "tokenUpdate", calls |-> Append(got, res.success)]

\* lines 86-97: db.query.products.findFirst answers; the call opens the
\* transaction of the card path, or enters the token path and starts unit 0
ReadProduct(p) ==
    /\ pc[p] = "readProduct"
    /\ IF AfterProduct(order[p]) = "unit"
       THEN LET unit == StartUnit(0, Quantity(order[p]), <<>>)
            IN /\ Goto(p, unit.pc)
               /\ issuerCalls' = [issuerCalls EXCEPT ![p] = unit.calls]
               /\ jwtCall' = JwtTest
       ELSE /\ Goto(p, AfterProduct(order[p]))
            /\ UNCHANGED <<issuerCalls, jwtCall>>
    /\ UNCHANGED <<dbVars, now, issued, args, order, cardLocals, tokenKeys,
                   cachedJwt, jwtExpiresAt, configured, workerVars,
                   claims>>

\* lines 32-43 and 65-77: the login answers resp (NULL: it fails). The
\* credential is cached and the issuer request sent, or getAdminJwt throws and
\* the unit has failed
LoginResponse(p, resp) ==
    /\ pc[p] = "login"
    /\ LET jwt == LoginAnswer(cachedJwt, jwtExpiresAt, now, resp)
           k == Len(issuerCalls[p])
           res == createTokenByLinuxDoId(NULL, FALSE, 0)
       IN /\ cachedJwt' = jwt.cachedJwt
          /\ jwtExpiresAt' = jwt.jwtExpiresAt
          /\ IF jwt.result # LoginFailed
             THEN /\ Goto(p, "token")
                  /\ UNCHANGED <<issuerCalls, jwtCall>>
             ELSE IF TokenLoop(res, k, Quantity(order[p])) = "unit"
             THEN LET unit == StartUnit(k + 1, Quantity(order[p]),
                                        Append(issuerCalls[p], res.success))
                  IN /\ Goto(p, unit.pc)
                     /\ issuerCalls' = [issuerCalls EXCEPT ![p] = unit.calls]
                     /\ jwtCall' = JwtTest
             ELSE /\ Goto(p, "tokenUpdate")
                  /\ issuerCalls' = [issuerCalls EXCEPT ![p] = Append(@, res.success)]
                  /\ UNCHANGED jwtCall
    /\ UNCHANGED <<dbVars, now, issued, args, order, cardLocals, tokenKeys,
                   configured, workerVars,
                   claims>>

\* lines 79-95 and 25-31: the issuer answers the request of unit k: it has
\* created a token (ok), pushed to tokenKeys, and the next unit starts or the
\* loop ends; or it has not, and the loop ends
TokenResponse(p, ok) ==
    /\ pc[p] = "token"
    /\ LET k == Len(issuerCalls[p])
           res == createTokenByLinuxDoId(cachedJwt, ok, issued + 1)
           got == Append(issuerCalls[p], res.success)
       IN /\ IF res.success /\ res.token # 0
             THEN /\ tokenKeys' = [tokenKeys EXCEPT ![p] = Append(@, res.token)]
                  /\ issued' = issued + 1
             ELSE UNCHANGED <<tokenKeys, issued>>
          /\ IF TokenLoop(res, k, Quantity(order[p])) = "unit"
             THEN LET unit == StartUnit(k + 1, Quantity(order[p]), got)
                  IN /\ Goto(p, unit.pc)
                     /\ issuerCalls' = [issuerCalls EXCEPT ![p] = unit.calls]
                     /\ jwtCall' = JwtTest
             ELSE /\ Goto(p, "tokenUpdate")
                  /\ issuerCalls' = [issuerCalls EXCEPT ![p] = got]
                  /\ UNCHANGED jwtCall
    /\ UNCHANGED <<dbVars, now, args, order, cardLocals, cachedJwt, jwtExpiresAt,
                   configured, workerVars,
                   claims>>

\* getAdminJwt called on its own (lines 13-30): it returns the cached
\* credential, throws, or sends the login request (the call has no result
\* while the request is in flight)
CallGetAdminJwt(p) ==
    /\ pc[p] \in {"idle", "done"}
    /\ LET jwt == getAdminJwt(cachedJwt, jwtExpiresAt, now, configured)
       IN IF jwt = Login
          THEN /\ pc' = [pc EXCEPT ![p] = "jwtLogin"]
               /\ result' = [result EXCEPT ![p] = NULL]
          ELSE Return(p, jwt)
    /\ jwtCall' = JwtTest
    /\ UNCHANGED <<dbVars, now, issued, args, order, cardLocals, tokenKeys,
                   issuerCalls, cachedJwt, jwtExpiresAt, configured, workerVars,
                   claims>>

\* and its login answers resp (lines 32-43)
GetAdminJwtResponse(p, resp) ==
    /\ pc[p] = "jwtLogin"
    /\ LET jwt == LoginAnswer(cachedJwt, jwtExpiresAt, now, resp)
       IN /\ cachedJwt' = jwt.cachedJwt
          /\ jwtExpiresAt' = jwt.jwtExpiresAt
          /\ Return(p, jwt.result)
    /\ UNCHANGED <<dbVars, now, issued, args, order, cardLocals, tokenKeys,
                   issuerCalls, jwtCall, configured, workerVars,
                   claims>>

\* an hour passes
Hour ==
    /\ now + RefreshMargin <= MaxHours * RefreshMargin + 1
    /\ now' = now + RefreshMargin
    /\ UNCHANGED <<dbVars, issued, pc, args, order, cardLocals,
                   issuerVars, result, claims>>

\* the order row fulfillSiyuanToken writes, lines 33-49
TokenOrderRow(row, keys, trade) ==
    IF Len(keys) > 0
    THEN [row EXCEPT !.status = "delivered", !.paidAt = Written, !.deliveredAt = Written,
                     !.tradeNo = trade, !.cardKey = join(keys)]
    ELSE [row EXCEPT !.status = "paid", !.paidAt = Written, !.tradeNo = trade]

\* fulfillSiyuanToken, lines 33-51 (autocommit UPDATE orders)
TokenUpdate(p) ==
    /\ pc[p] = "tokenUpdate"
    /\ orderLock[orderId[p]] = 0
    /\ orders' = [orders EXCEPT ![orderId[p]] =
                     TokenOrderRow(@, tokenKeys[p], tradeNo[p])]
    /\ Return(p, "processed")
    /\ UNCHANGED <<cards, lockedBy, newRow, orderLock, txOrder, store, now, issued,
                   args, order, cardLocals, issuerVars, claims>>

\* WHERE reserved_order_id = orderId AND COALESCE(is_used, false) = false (line 111)
ReservedFor(card, o) == card.reserved_order_id = o /\ Unused(card)

\* SET is_used = true, used_at = NOW(), reserved_order_id = NULL, reserved_at = NULL
MarkUsed(card) ==
    [card EXCEPT !.is_used = "true", !.used_at = Written,
                 !.reserved_order_id = NULL, !.reserved_at = NoTime]

\* SET is_used = true, used_at = NOW() (legacy statement, line 161)
MarkUsedLegacy(card) == [card EXCEPT !.is_used = "true", !.used_at = Written]

\* the transaction of call p is in the aborted state: one of its statements
\* failed; it holds no lock any more and every further statement fails
TxAborted(p) == aborting /\ error[p] # NoError

\* the transaction aborts, at the error of one of its statements or at ROLLBACK:
\* the rows it wrote are discarded and its locks released
Rollback(p) ==
    /\ lockedBy' = [c \in CardIds |-> IF lockedBy[c] = p THEN 0 ELSE lockedBy[c]]
    /\ newRow' = [c \in CardIds |-> IF lockedBy[c] = p THEN cards[c] ELSE newRow[c]]
    /\ orderLock' = [o \in OrderIds |-> IF orderLock[o] = p THEN 0 ELSE orderLock[o]]
    /\ txOrder' = [txOrder EXCEPT ![p] = NoOrder]
    /\ UNCHANGED <<orders, cards, store>>

\* lines 114-129: the reserved claim raised err: line 116 is not reached, so
\* cardKeys stays empty. A schema mismatch clears supportsReservation and the
\* callback goes on (in a transaction the store has aborted, its locks released
\* at the error, or with the statement undone, as the store does); any other
\* error is rethrown, the transaction rolled back and the call rejected
CatchReserved(p, err) ==
    /\ error' = [error EXCEPT ![p] = err]
    /\ cardKeys' = [cardKeys EXCEPT ![p] = <<>>]
    /\ resvKeys' = [resvKeys EXCEPT ![p] = {}]
    /\ todo' = [todo EXCEPT ![p] = <<>>]
    /\ IF SchemaMismatch(err)
       THEN /\ supportsReservation' = [supportsReservation EXCEPT ![p] = FALSE]
            /\ Goto(p, "claimPool")
            /\ Rollback(p)
            /\ UNCHANGED txNow
       ELSE /\ Rollback(p)
            /\ Return(p, "throw_db_error")
            /\ txNow' = [txNow EXCEPT ![p] = NoTime]
            /\ UNCHANGED supportsReservation
    /\ UNCHANGED <<now, issued, args, order, poolKeys, issuerVars, claims>>

\* the orders in which the reserved UPDATE of call p may visit the rows that
\* match its snapshot (line 111)
ReservedScans(p) == Scans({c \in CardIds : ReservedFor(cards[c], orderId[p])})

\* lines 105-113: the reserved UPDATE takes its snapshot and is to visit the
\* rows that match it in the order scan; on a schema without the reservation
\* columns the statement fails with the undefined-column error
ClaimReserved(p, scan) ==
    /\ pc[p] = "claimReserved"
    /\ scan \in ReservedScans(p)
    /\ IF legacy
       THEN CatchReserved(p, UndefinedColumn)
       ELSE /\ todo' = [todo EXCEPT ![p] = scan]
            /\ Goto(p, IF scan = <<>> THEN "claimPool" ELSE "reservedRow")
            /\ UNCHANGED <<dbVars, now, issued, args, order, cardKeys,
                           supportsReservation, error, poolKeys, resvKeys, txNow,
                           issuerVars, claims>>

\* the reserved claim fails on a schema that has the reservation columns
FailReserved(p, err) ==
    /\ pc[p] = "claimReserved"
    /\ ~legacy
    /\ CatchReserved(p, err)

\* lines 136-152, 159-170 and 182-196: the general-pool claim or the order write
\* raises err (in an aborted transaction every statement does): nothing catches
\* it, the transaction is rolled back and the call rejected
FailStatement(p, err) ==
    /\ pc[p] \in {"claimPool", "updateOrder"}
    /\ TxAborted(p) => err = InFailedTransaction
    /\ error' = [error EXCEPT ![p] = err]
    /\ Rollback(p)
    /\ Return(p, "throw_db_error")
    /\ txNow' = [txNow EXCEPT ![p] = NoTime]
    /\ UNCHANGED <<now, issued, args, order, cardKeys, supportsReservation, todo,
                   poolKeys, resvKeys, issuerVars, claims>>

\* a statement sent in an aborted transaction
AbortedStatement(p) ==
    /\ TxAborted(p)
    /\ FailStatement(p, InFailedTransaction)

\* lines 105-117: the reserved UPDATE visits the next row of its scan: it waits
\* while another transaction holds the row, then re-evaluates the WHERE clause
\* on the latest committed version and updates the row if it still matches
ReservedRow(p) ==
    /\ pc[p] = "reservedRow"
    /\ LET c == Head(todo[p])
           rest == Tail(todo[p])
       IN /\ lockedBy[c] = 0
          /\ IF ReservedFor(cards[c], orderId[p])
             THEN /\ lockedBy' = [lockedBy EXCEPT ![c] = p]
                  /\ newRow' = [newRow EXCEPT ![c] = MarkUsed(cards[c])]
                  /\ cardKeys' = [cardKeys EXCEPT ![p] = Append(@, cards[c].card_key)]
                  /\ resvKeys' = [resvKeys EXCEPT ![p] = @ \cup {c}]
             ELSE UNCHANGED <<lockedBy, newRow, cardKeys, resvKeys>>
          /\ todo' = [todo EXCEPT ![p] = rest]
          /\ Goto(p, IF rest = <<>> THEN "claimPool" ELSE "reservedRow")
    /\ UNCHANGED <<orders, cards, orderLock, txOrder, store, now, issued, args,
                   order, supportsReservation, error, poolKeys, txNow, issuerVars, claims>>

\* the call whose row lock the statement of call p is waiting for (0: none)
WaitsFor(p) ==
    IF pc[p] = "reservedRow" THEN lockedBy[Head(todo[p])]
    ELSE IF pc[p] = "updateOrder" THEN orderLock[orderId[p]]
    ELSE 0

\* call p is one of a set of calls each waiting for a lock held inside the set
Deadlocked(p) ==
    \E W \in SUBSET Procs : p \in W /\ \A q \in W : WaitsFor(q) \in W

\* the store finds the reserved UPDATE of call p in a deadlock and fails it with
\* the deadlock error, whose detail names process pid
DeadlockVictim(p, pid) ==
    /\ pc[p] = "reservedRow"
    /\ Deadlocked(p)
    /\ CatchReserved(p, DeadlockDetected(pid))

\* mutant: the general-pool subquery without COALESCE(is_used, false) = false
PoolMatchesAnyUse(card, productId, reserving, t) ==
    /\ card.product_id = productId
    /\ reserving => (card.reserved_at = NoTime \/ card.reserved_at < t - ReservationTTL)

\* mutant: the general-pool subquery without the reserved_at condition
PoolMatchesNoExpiry(card, productId, reserving, t) ==
    /\ card.product_id = productId
    /\ Unused(card)

\* the WHERE clause of the general-pool subquery (lines 143-147 and 163-165): the
\* row is of the product, unused, and not reserved or reserved more than a
\* minute before NOW(); the legacy statement has no reservation condition
PoolMatches(card, productId, reserving, t) ==
    /\ card.product_id = productId
    /\ Unused(card)
    /\ reserving => (card.reserved_at = NoTime \/ card.reserved_at < t - ReservationTTL)

\* the rows the general-pool subquery may lock (lines 143-149 and 163-167): the
\* rows that match and that no transaction holds (SKIP LOCKED); a row this
\* transaction has updated is used in its own view
PoolCandidates(productId, reserving, t) ==
    {c \in CardIds :
        /\ PoolMatches(cards[c], productId, reserving, t)
        /\ lockedBy[c] = 0}

\* mutant: the subquery without LIMIT
LimitAll(n, needed) == n

\* LIMIT needed
Limit(n, needed) == IF n < needed THEN n ELSE needed

\* mutant: the pool gives the whole quantity, whatever the reserved cards gave
NeededFull(quantity, have) == quantity

\* cardKeys.length < quantity ? quantity - cardKeys.length : nothing to draw (lines 131-132)
Needed(quantity, have) == IF have < quantity THEN quantity - have ELSE 0

\* the rows that match the snapshot of the general-pool statement of call p
\* (lines 143-147, 163-165); a row another transaction holds is in the snapshot
\* with its committed version
PoolSnapshot(p) ==
    {c \in CardIds :
        /\ lockedBy[c] # p
        /\ PoolMatches(cards[c], order[p].productId, supportsReservation[p], txNow[p])}

\* the rows of S by ascending id
Ascending(S) == CHOOSE s \in Scans(S) : \A k \in 1..(Len(s) - 1) : s[k] < s[k + 1]

\* lines 131-152 and 159-170: with a shortfall the general-pool statement is
\* sent; it takes its snapshot and its subquery is to visit the rows that match
\* it. Without a shortfall, or with no row to visit, the callback goes on to
\* the order update with the keys it has
ClaimPool(p) ==
    /\ pc[p] = "claimPool"
    /\ ~TxAborted(p)
    /\ LET needed == Needed(Quantity(order[p]), Len(cardKeys[p]))
           scan == Ascending(PoolSnapshot(p))
           visit == needed > 0 /\ 0 # Limit(Len(scan), needed)
       IN /\ todo' = [todo EXCEPT ![p] = IF visit THEN scan ELSE <<>>]
          /\ Goto(p, IF visit THEN "poolRow" ELSE "updateOrder")
    /\ UNCHANGED <<dbVars, now, issued, args, order, cardKeys, supportsReservation,
                   error, poolKeys, resvKeys, txNow, issuerVars, claims>>

\* the subquery of call p locks row c when it visits it: the row is held by no
\* transaction and its latest committed version still matches the WHERE clause
PoolTakes(p, c) ==
    c \in PoolCandidates(order[p].productId, supportsReservation[p], txNow[p])

\* the rows the statement has locked once it has visited row c
PoolKeysAfter(p, c) ==
    IF PoolTakes(p, c) THEN poolKeys[p] \cup {c} ELSE poolKeys[p]

\* LIMIT needed (lines 148, 166): the subquery ends with row c when it has
\* locked needed rows or has no other row left to visit
PoolDone(p, c) ==
    Cardinality(PoolKeysAfter(p, c)) =
        Limit(Cardinality(PoolKeysAfter(p, c)) + Len(todo[p]) - 1,
              Needed(Quantity(order[p]), Len(cardKeys[p])))

\* the orders in which the statement may return the rows it updated (RETURNING
\* card_key, lines 151 and 169), when row c is the last it visits
PoolReturns(p, c) ==
    IF PoolDone(p, c) THEN Scans(PoolKeysAfter(p, c)) ELSE {<<>>}

\* lines 136-155 and 159-173: the subquery visits c, any of the rows it has
\* still to visit (its scan order is not specified): it skips a row another
\* transaction holds (FOR UPDATE SKIP LOCKED) and a row whose latest committed
\* version no longer matches, and locks any other; after its last row the
\* statement updates the rows it locked and returns their keys in the order
\* rows, and the callback goes on to the order update
PoolRow(p, c, rows) ==
    /\ pc[p] = "poolRow"
    /\ c \in Rows(todo[p])
    /\ rows \in PoolReturns(p, c)
    /\ IF PoolTakes(p, c)
       THEN /\ lockedBy' = [lockedBy EXCEPT ![c] = p]
            /\ newRow' = [newRow EXCEPT ![c] =
                             IF supportsReservation[p] THEN MarkUsed(cards[c])
                             ELSE MarkUsedLegacy(cards[c])]
       ELSE UNCHANGED <<lockedBy, newRow>>
    /\ poolKeys' = [poolKeys EXCEPT ![p] = PoolKeysAfter(p, c)]
    /\ IF PoolDone(p, c)
       THEN /\ cardKeys' = [cardKeys EXCEPT ![p] = @ \o Returning(rows)]
            /\ todo' = [todo EXCEPT ![p] = <<>>]
            /\ Goto(p, "updateOrder")
       ELSE /\ todo' = [todo EXCEPT ![p] = SelectSeq(@, LAMBDA x : x # c)]
            /\ UNCHANGED <<cardKeys, pc, result>>
    /\ UNCHANGED <<orders, cards, orderLock, txOrder, store, now, issued, args,
                   order, supportsReservation, error, resvKeys, txNow,
                   issuerVars, claims>>

\* the steps the general-pool statement of call p may take next
PoolRows(p) ==
    /\ pc[p] = "poolRow"
    /\ \E c \in Rows(todo[p]) : \E rows \in PoolReturns(p, c) : PoolRow(p, c, rows)

\* the order row the transaction writes, lines 179-198
CardOrderRow(row, keys, trade) ==
    IF Len(keys) > 0
    THEN [row EXCEPT !.status = "delivered", !.paidAt = Written, !.deliveredAt = Written,
                     !.tradeNo = trade, !.cardKey = join(keys)]
    ELSE [row EXCEPT !.status = "paid", !.paidAt = Written, !.tradeNo = trade]

\* lines 177-198: tx.update(orders) locks the order row (waiting for another
\* transaction that holds it) and writes the new version
UpdateOrder(p) ==
    /\ pc[p] = "updateOrder"
    /\ orderLock[orderId[p]] = 0
    /\ orderLock' = [orderLock EXCEPT ![orderId[p]] = p]
    /\ txOrder' = [txOrder EXCEPT ![p] =
                      CardOrderRow(orders[orderId[p]], cardKeys[p], tradeNo[p])]
    /\ Goto(p, "commit")
    /\ UNCHANGED <<orders, cards, lockedBy, newRow, store, now, issued, args,
                   order, cardLocals, issuerVars, claims>>

\* lines 199-200: COMMIT publishes the rows the transaction wrote and releases
\* its locks
Commit(p) ==
    /\ pc[p] = "commit"
    /\ LET mine == {c \in CardIds : lockedBy[c] = p}
       IN /\ cards' = [c \in CardIds |-> IF c \in mine THEN newRow[c] ELSE cards[c]]
          /\ newRow' = newRow
          /\ lockedBy' = [c \in CardIds |-> IF c \in mine THEN 0 ELSE lockedBy[c]]
          /\ claims' = IF mine = {} THEN claims
                       ELSE claims \cup {[call |-> p, order |-> orderId[p], cards |-> mine]}
    /\ orders' = [orders EXCEPT ![orderId[p]] = txOrder[p]]
    /\ orderLock' = [orderLock EXCEPT ![orderId[p]] = 0]
    /\ txOrder' = [txOrder EXCEPT ![p] = NoOrder]
    /\ txNow' = [txNow EXCEPT ![p] = NoTime]
    /\ Return(p, "processed")
    /\ UNCHANGED <<store, now, issued, args, order, cardKeys, supportsReservation,
                   error, todo, poolKeys, resvKeys, issuerVars>>

\* a minute passes
Tick ==
    /\ now < MaxNow
    /\ now' = now + 1
    /\ UNCHANGED <<dbVars, issued, pc, args, order, cardLocals,
                   issuerVars, result, claims>>

\* -------------------------------------------- the worker's issuer client
\* src/_workers_next/src/lib/siyuan-share.ts

\* getAdminToken to its first await (lines 46-59), t being the now of line 46:
\* the cached credential while its expiry is more than 5 minutes away, else a
\* throw without the configuration, else the login request
getAdminToken(token, expiry, t, cfg) ==
    IF token # NULL /\ expiry > t + ExpiryBuffer THEN token
    ELSE IF ~cfg THEN NotConfigured
    ELSE Login

\* getAdminToken from the answer of the login request (lines 67-77): resp is the
\* token of the answer, NULL when result.code is not 0 or the token is missing;
\* the expiry counts from t, the now of line 46
AdminTokenAnswer(token, expiry, t, resp) ==
    IF resp = NULL
    THEN [cachedJwtToken |-> token, cachedJwtExpiry |-> expiry, result |-> LoginFailed]
    ELSE [cachedJwtToken |-> resp, cachedJwtExpiry |-> t + JwtLifetime, result |-> resp]

\* quantity = 1 when params has none (line 150)
QuantityOf(p) == IF p.quantity = NoQuantity THEN 1 ELSE p.quantity

\* createUser and createTokenForUser to their request (lines 88-102 and
\* 117-127): getAdminToken returns the cached credential and the request is
\* sent, or it throws, or it sends the login request
AdminRequest(p, login, request) ==
    LET token == getAdminToken(cachedJwtToken, cachedJwtExpiry, now, configured)
    IN /\ adminNow' = [adminNow EXCEPT ![p] = now]
       /\ IF token = Login THEN Goto(p, login)
          ELSE IF token = NotConfigured THEN Return(p, NotConfigured)
          ELSE Goto(p, request)

\* generateSiyuanShareToken, lines 150-170: the loop starts with createUser for
\* unit 1, or returns no token when quantity is 0
generateSiyuanShareToken(p, o, q) ==
    /\ pc[p] = "idle"
    /\ params' = [params EXCEPT ![p] = [orderId |-> o, quantity |-> q]]
    /\ tokens' = [tokens EXCEPT ![p] = <<>>]
    /\ IF QuantityOf(params'[p]) > 0
       THEN AdminRequest(p, "userLogin", "createUser")
       ELSE /\ Return(p, Returned)
            /\ UNCHANGED adminNow
    /\ UNCHANGED <<dbVars, now, issued, args, order, cardLocals, tokenKeys,
                   issuerCalls, jwtVars, claims, cachedJwtToken, cachedJwtExpiry,
                   user, users>>

\* lines 67-77, then 91-102 or 120-127: the login answers; a failure is thrown
\* through createUser / createTokenForUser and the catch of line 177, a
\* credential is cached and the request that waited for it is sent
AdminTokenResponse(p, resp) ==
    /\ pc[p] \in {"userLogin", "tokenLogin"}
    /\ LET jwt == AdminTokenAnswer(cachedJwtToken, cachedJwtExpiry, adminNow[p], resp)
       IN /\ cachedJwtToken' = jwt.cachedJwtToken
          /\ cachedJwtExpiry' = jwt.cachedJwtExpiry
          /\ IF jwt.result = LoginFailed THEN Return(p, LoginFailed)
             ELSE Goto(p, IF pc[p] = "userLogin" THEN "createUser" ELSE "createToken")
    /\ UNCHANGED <<dbVars, now, issued, args, order, cardLocals, tokenKeys,
                   issuerCalls, jwtVars, claims, params, tokens, adminNow, user, users>>

\* lines 104-110, then 173-174 and 117-127: the issuer answers the create-user
\* request: it has created the user (ok) and createTokenForUser starts, or it
\* has not and the error is thrown
CreateUserResponse(p, ok) ==
    /\ pc[p] = "createUser"
    /\ IF ok
       THEN /\ users' = users + 1
            /\ user' = [user EXCEPT ![p] = users + 1]
            /\ AdminRequest(p, "tokenLogin", "createToken")
       ELSE /\ Return(p, CreateUserFailed)
            /\ UNCHANGED <<users, user, adminNow>>
    /\ UNCHANGED <<dbVars, now, issued, args, order, cardLocals, tokenKeys,
                   issuerCalls, jwtVars, claims, cachedJwtToken, cachedJwtExpiry,
                   params, tokens>>

\* lines 129-135, then 176 and 158-170 or 183: the issuer answers the
\* create-token request: the token is pushed and the next unit starts with
\* createUser, or the tokens are returned after the last unit; a failure is
\* thrown, whatever tokens were made before
CreateTokenResponse(p, ok) ==
    /\ pc[p] = "createToken"
    /\ IF ok
       THEN /\ issued' = issued + 1
            /\ tokens' = [tokens EXCEPT ![p] = Append(@, TokenOf(issued + 1))]
            /\ IF Len(tokens'[p]) < QuantityOf(params[p])
               THEN AdminRequest(p, "userLogin", "createUser")
               ELSE /\ Return(p, Returned)
                    /\ UNCHANGED adminNow
       ELSE /\ Return(p, CreateTokenFailed)
            /\ UNCHANGED <<issued, tokens, adminNow>>
    /\ UNCHANGED <<dbVars, now, args, order, cardLocals, tokenKeys,
                   issuerCalls, jwtVars, claims, cachedJwtToken, cachedJwtExpiry,
                   params, user, users>>

\* isSiyuanShareConfigured, lines 189-197
isSiyuanShareConfigured == configured

\* ------------------------------------------------------- specifications

\* Spec: NumCalls concurrent calls for the card orders o1 and o2 (same product,
\* same pool), each with the exact amount and its own tradeNo.
Next ==
    \/ \E p \in Procs, o \in CardOrders : processOrderFulfillment(p, o, Exact, p)
    \/ \E p \in Procs : ReadProduct(p)
    \/ \E p \in Procs : Begin(p)
    \/ \E p \in Procs : pc[p] = "claimReserved" /\ \E scan \in ReservedScans(p) : ClaimReserved(p, scan)
    \/ \E p \in Procs : ReservedRow(p)
    \/ \E p \in Procs, pid \in Pids : DeadlockVictim(p, pid)
    \/ \E p \in Procs : ClaimPool(p)
    \/ \E p \in Procs : PoolRows(p)
    \/ \E p \in Procs : AbortedStatement(p)
    \/ \E p \in Procs : UpdateOrder(p)
    \/ \E p \in Procs : Commit(p)

Spec == Init /\ [][Next]_vars

\* SpecOne: one call for any order (card, token, payment or missing) in any
\* status, with any of the amounts, the issuer credentials configured or not.
\* An order that starts paid or delivered carries what an earlier fulfillment wrote.
PastOrder(productId, quantity, status, userId) ==
    [NewOrder(productId, quantity, status, userId) EXCEPT
        !.paidAt = IF status \in {"paid", "delivered"} THEN Written ELSE NULL,
        !.tradeNo = IF status \in {"paid", "delivered"} THEN 9 ELSE NoTrade,
        !.deliveredAt = IF status = "delivered" THEN Written ELSE NULL,
        !.cardKey = IF status = "delivered" THEN join(<<99>>) ELSE <<>>]

InitOne ==
    /\ \E q \in 1..MaxQty, st \in Statuses :
        orders = [o1 |-> PastOrder("pA", q, st, "u1"),
                  o2 |-> PastOrder("pA", 1, st, "u1"),
                  o3 |-> PastOrder("pT", 2, st, "u1"),
                  o4 |-> PastOrder("pP", 1, st, "u1"),
                  o5 |-> PastOrder("pT", 0, st, NULL)]
    /\ \E r \in [2..NumCards -> {NULL, "o1", "o2"}], at \in ReservedAts :
        /\ (\A c \in 2..NumCards : r[c] = NULL) => at = 0
        /\ cards = [c \in 1..NumCards |->
                      IF c = 1 THEN NewCard(c, "pB", NULL)
                      ELSE ReservedCard(c, "pA", r[c], at)]
    /\ legacy = FALSE
    /\ aborting = TRUE
    /\ configured \in BOOLEAN
    /\ InitLocks
    /\ InitCalls(1)

NextOne ==
    \/ \E p \in Procs, o \in OrderArgs, paid \in PaidAmounts :
          processOrderFulfillment(p, o, paid, p)
    \/ \E p \in Procs : PayUpdate(p)
    \/ \E p \in Procs : NoUserUpdate(p)
    \/ \E p \in Procs, resp \in Jwts \cup {NULL} : LoginResponse(p, resp)
    \/ \E p \in Procs, ok \in BOOLEAN : TokenResponse(p, ok)
    \/ \E p \in Procs : TokenUpdate(p)
    \/ \E p \in Procs : ReadProduct(p)
    \/ \E p \in Procs : Begin(p)
    \/ \E p \in Procs : pc[p] = "claimReserved" /\ \E scan \in ReservedScans(p) : ClaimReserved(p, scan)
    \/ \E p \in Procs : ReservedRow(p)
    \/ \E p \in Procs : ClaimPool(p)
    \/ \E p \in Procs : PoolRows(p)
    \/ \E p \in Procs : UpdateOrder(p)
    \/ \E p \in Procs : Commit(p)

SpecOne == InitOne /\ [][NextOne]_vars

\* SpecPool: PoolN pending orders of product pA, each of quantity 1, a pool of
\* exactly PoolN unused unreserved cards, and one call per order, all concurrent.
PoolOrder(k) == <<"o1", "o2", "o3", "o4", "o5", "o6">>[k]

InitPool ==
    /\ orders = [o \in {PoolOrder(k) : k \in 1..PoolN} |-> NewOrder("pA", 1, "pending", "u1")]
    /\ cards = [c \in 1..PoolN |-> NewCard(c, "pA", NULL)]
    /\ legacy = FALSE
    /\ aborting = TRUE
    /\ configured = TRUE
    /\ InitLocks
    /\ InitCalls(PoolN)

NextPool ==
    \/ \E p \in Procs : processOrderFulfillment(p, PoolOrder(p), Exact, p)
    \/ \E p \in Procs : ReadProduct(p)
    \/ \E p \in Procs : Begin(p)
    \/ \E p \in Procs : pc[p] = "claimReserved" /\ \E scan \in ReservedScans(p) : ClaimReserved(p, scan)
    \/ \E p \in Procs : ClaimPool(p)
    \/ \E p \in Procs : PoolRows(p)
    \/ \E p \in Procs : UpdateOrder(p)
    \/ \E p \in Procs : Commit(p)

SpecPool == InitPool /\ [][NextPool]_vars

\* SpecExpiry: one call for a card order over cards that are free, used, or
\* reserved for either card order at any minute up to the start of the clock.
UsedCard(c, productId) ==
    [NewCard(c, productId, NULL) EXCEPT !.is_used = "true", !.used_at = Written]

CardStates(c, productId) ==
    {NewCard(c, productId, NULL), UsedCard(c, productId)}
        \cup {ReservedCard(c, productId, o, at) : o \in CardOrders, at \in 0..(MaxNow - 1)}

InitExpiry ==
    /\ \E q \in 1..MaxQty :
        orders = [o1 |-> NewOrder("pA", q, "pending", "u1"),
                  o2 |-> NewOrder("pA", 1, "pending", "u1")]
    /\ \E f \in [2..NumCards -> UNION {CardStates(c, "pA") : c \in 2..NumCards}] :
        /\ \A c \in 2..NumCards : f[c] \in CardStates(c, "pA")
        /\ cards = [c \in 1..NumCards |-> IF c = 1 THEN NewCard(c, "pB", NULL) ELSE f[c]]
    /\ legacy = FALSE
    /\ aborting = TRUE
    /\ configured = TRUE
    /\ InitLocks
    /\ InitCalls(1)

NextExpiry ==
    \/ \E p \in Procs, o \in CardOrders : processOrderFulfillment(p, o, Exact, p)
    \/ \E p \in Procs : ReadProduct(p)
    \/ \E p \in Procs : Begin(p)
    \/ \E p \in Procs : pc[p] = "claimReserved" /\ \E scan \in ReservedScans(p) : ClaimReserved(p, scan)
    \/ \E p \in Procs : ReservedRow(p)
    \/ \E p \in Procs : ClaimPool(p)
    \/ \E p \in Procs : PoolRows(p)
    \/ \E p \in Procs : UpdateOrder(p)
    \/ \E p \in Procs : Commit(p)
    \/ Tick

SpecExpiry == InitExpiry /\ [][NextExpiry]_vars

\* SpecFault: one call for a card order where any statement of its
\* transaction may fail, on a store with or without the reservation columns
\* (without them no card carries a reservation) that aborts the transaction of a
\* failed statement or not.
InitFault ==
    /\ legacy \in BOOLEAN
    /\ aborting \in BOOLEAN
    /\ configured = TRUE
    /\ \E q \in 1..MaxQty :
        orders = [o1 |-> NewOrder("pA", q, "pending", "u1"),
                  o2 |-> NewOrder("pA", 1, "cancelled", "u1")]
    /\ \E r \in [2..NumCards -> {NULL, "o1", "o2"}] :
        /\ legacy => \A c \in 2..NumCards : r[c] = NULL
        /\ cards = [c \in 1..NumCards |->
                      IF c = 1 THEN NewCard(c, "pB", NULL) ELSE NewCard(c, "pA", r[c])]
    /\ InitLocks
    /\ InitCalls(1)

NextFault ==
    \/ \E p \in Procs, o \in CardOrders : processOrderFulfillment(p, o, Exact, p)
    \/ \E p \in Procs : ReadProduct(p)
    \/ \E p \in Procs : Begin(p)
    \/ \E p \in Procs : pc[p] = "claimReserved" /\ \E scan \in ReservedScans(p) : ClaimReserved(p, scan)
    \/ \E p \in Procs, err \in DbErrors : FailReserved(p, err)
    \/ \E p \in Procs : ReservedRow(p)
    \/ \E p \in Procs : ClaimPool(p)
    \/ \E p \in Procs : PoolRows(p)
    \/ \E p \in Procs, err \in DbErrors : FailStatement(p, err)
    \/ \E p \in Procs : AbortedStatement(p)
    \/ \E p \in Procs : UpdateOrder(p)
    \/ \E p \in Procs : Commit(p)

SpecFault == InitFault /\ [][NextFault]_vars

\* SpecLegacy: concurrent calls for the card orders on a store without the
\* reservation columns; no statement fails for another reason.
InitLegacy ==
    /\ legacy = TRUE
    /\ aborting \in BOOLEAN
    /\ configured = TRUE
    /\ \E q \in 1..MaxQty :
        orders = [o1 |-> NewOrder("pA", q, "pending", "u1"),
                  o2 |-> NewOrder("pA", 1, "cancelled", "u1")]
    /\ cards = [c \in 1..NumCards |->
                  IF c = 1 THEN NewCard(c, "pB", NULL) ELSE NewCard(c, "pA", NULL)]
    /\ InitLocks
    /\ InitCalls(NumCalls)

NextLegacy ==
    \/ \E p \in Procs, o \in CardOrders : processOrderFulfillment(p, o, Exact, p)
    \/ \E p \in Procs : ReadProduct(p)
    \/ \E p \in Procs : Begin(p)
    \/ \E p \in Procs : pc[p] = "claimReserved" /\ \E scan \in ReservedScans(p) : ClaimReserved(p, scan)
    \/ \E p \in Procs : ClaimPool(p)
    \/ \E p \in Procs : PoolRows(p)
    \/ \E p \in Procs : AbortedStatement(p)
    \/ \E p \in Procs : UpdateOrder(p)
    \/ \E p \in Procs : Commit(p)

SpecLegacy == InitLegacy /\ [][NextLegacy]_vars

\* SpecLive: concurrent calls for the card orders under fair scheduling: a call
\* that can take its next step (its statement is not waiting for a row lock)
\* eventually takes it. Every reservation has expired, so that the pool draw of
\* one order can hold the cards reserved for another.
Step(p) ==
    \/ ReadProduct(p)
    \/ Begin(p)
    \/ pc[p] = "claimReserved" /\ \E scan \in ReservedScans(p) : ClaimReserved(p, scan)
    \/ ReservedRow(p)
    \/ \E pid \in Pids : DeadlockVictim(p, pid)
    \/ ClaimPool(p)
    \/ PoolRows(p)
    \/ AbortedStatement(p)
    \/ UpdateOrder(p)
    \/ Commit(p)

InitLive ==
    /\ orders = [o1 |-> NewOrder("pA", 2, "pending", "u1"),
                 o2 |-> NewOrder("pA", 1, "cancelled", "u1")]
    /\ \E r \in [2..NumCards -> {NULL, "o1", "o2"}] :
        cards = [c \in 1..NumCards |->
                    IF c = 1 THEN NewCard(c, "pB", NULL)
                    ELSE IF r[c] = NULL THEN NewCard(c, "pA", NULL)
                    ELSE ReservedCard(c, "pA", r[c], 0 - 2 * ReservationTTL)]
    /\ legacy = FALSE
    /\ aborting = TRUE
    /\ configured = TRUE
    /\ InitLocks
    /\ InitCalls(NumCalls)

NextLive ==
    \/ \E p \in Procs, o \in CardOrders : processOrderFulfillment(p, o, Exact, p)
    \/ \E p \in Procs : Step(p)

SpecLive == InitLive /\ [][NextLive]_vars /\ \A p \in 1..NumCalls : WF_vars(Step(p))

\* SpecJwt: concurrent callers of getAdminJwt, calling again and again over
\* MaxHours hours, every login succeeding with one of the credentials or
\* failing, with or without the credentials configured.
InitJwt ==
    /\ orders = [o3 |-> NewOrder("pT", 2, "pending", "u1")]
    /\ cards = [c \in 1..1 |-> NewCard(c, "pA", NULL)]
    /\ legacy = FALSE
    /\ aborting = TRUE
    /\ \E cfg \in BOOLEAN : configured = cfg
    /\ InitLocks
    /\ InitCalls(NumCalls)

NextJwt ==
    \/ \E p \in Procs : CallGetAdminJwt(p)
    \/ \E p \in Procs, resp \in Jwts \cup {NULL} : GetAdminJwtResponse(p, resp)
    \/ Hour

SpecJwt == InitJwt /\ [][NextJwt]_vars

\* SpecTokens: concurrent calls for the token order o3, whose logins and issuer
\* requests interleave: both may find the cache empty and log in, and the
\* tokens of one call need not be consecutive.
NextTokens ==
    \/ \E p \in Procs : processOrderFulfillment(p, "o3", Exact, p)
    \/ \E p \in Procs : ReadProduct(p)
    \/ \E p \in Procs, resp \in Jwts \cup {NULL} : LoginResponse(p, resp)
    \/ \E p \in Procs, ok \in BOOLEAN : TokenResponse(p, ok)
    \/ \E p \in Procs : TokenUpdate(p)

SpecTokens == InitJwt /\ [][NextTokens]_vars

\* SpecWorker: concurrent generateSiyuanShareToken calls of the worker's client
\* for 0 to 2 units or the default, the configuration set or not, the cache empty,
\* fresh, or 1 or 2 minutes from the 5 minutes before its expiry; every login,
\* create-user and create-token request succeeds or fails.
InitWorker ==
    /\ orders = [o3 |-> NewOrder("pT", 2, "pending", "u1")]
    /\ cards = [c \in 1..1 |-> NewCard(c, "pA", NULL)]
    /\ legacy = FALSE
    /\ aborting = TRUE
    /\ configured \in BOOLEAN
    /\ InitLocks
    /\ InitLocals(NumCalls)
    /\ \E jwt \in {NULL, "jwt1"}, left \in {ExpiryBuffer + 1, ExpiryBuffer + 2, JwtLifetime} :
          /\ cachedJwtToken = jwt
          /\ cachedJwtExpiry = IF jwt = NULL THEN 0 ELSE 1 + left
          /\ jwt = NULL => left = JwtLifetime
          /\ jwt # NULL => configured

NextWorker ==
    \/ \E p \in Procs, q \in {NoQuantity, 0, 1, 2} : generateSiyuanShareToken(p, "o3", q)
    \/ \E p \in Procs, resp \in Jwts \cup {NULL} : AdminTokenResponse(p, resp)
    \/ \E p \in Procs, ok \in BOOLEAN : CreateUserResponse(p, ok)
    \/ \E p \in Procs, ok \in BOOLEAN : CreateTokenResponse(p, ok)
    \/ Tick

SpecWorker == InitWorker /\ [][NextWorker]_vars

\* what the worker's client keeps: a call returns exactly quantity tokens, made
\* in order, or throws; no token is made without a user made for it; a cached
\* credential expires at most 23 hours from now
WorkerSound ==
    /\ \A p \in Procs :
          /\ Len(tokens[p]) <= QuantityOf(params[p])
          /\ (pc[p] = "done" /\ result[p] = Returned) =>
                Len(tokens[p]) = QuantityOf(params[p])
          /\ \A k \in 1..Len(tokens[p]) : tokens[p][k] <= TokenOf(issued)
          /\ \A k \in 1..(Len(tokens[p]) - 1) : tokens[p][k] < tokens[p][k + 1]
    /\ issued <= users
    /\ cachedJwtToken = NULL => cachedJwtExpiry = 0
    /\ cachedJwtToken # NULL => cachedJwtExpiry <= now + JwtLifetime

\* ================================================================ claims

OnCardPath(p) ==
    /\ order[p] # NoOrder
    /\ ~isPaymentOrder(order[p].productId)
    /\ fulfillmentType(order[p].productId) # "siyuan_token"
    /\ Pending(order[p])
    /\ result[p] # "throw_amount_mismatch"

OnTokenPath(p) ==
    /\ order[p] # NoOrder
    /\ fulfillmentType(order[p].productId) = "siyuan_token"
    /\ Pending(order[p])
    /\ result[p] # "throw_amount_mismatch"

\* C1: no card is consumed by more than one order: a card is marked used by at
\* most one committed transaction, and no card key appears in the cardKey of two
\* different orders.
C1_NoDoubleAllocation ==
    /\ \A c \in CardIds : Cardinality({r \in claims : c \in r.cards}) <= 1
    /\ \A c \in CardIds :
          Cardinality({o \in OrderIds : cards[c].card_key \in KeysOf(orders[o].cardKey)}) <= 1

\* C1 witness: two calls for different orders have both committed a claim of cards
\* from the same pool.
C1_Witness ==
    \E p \in Procs, q \in Procs :
        /\ pc[p] = "done" /\ pc[q] = "done"
        /\ orderId[p] # orderId[q]
        /\ \E r \in claims : r.call = p
        /\ \E r \in claims : r.call = q

\* C2: N pending card orders of quantity 1, a pool of exactly N free cards, one
\* call per order, all concurrent: once all have returned, every order is
\* delivered with exactly one key, the keys are pairwise distinct, and every card
\* is used.
C2_AllServed ==
    (\A p \in Procs : pc[p] = "done") =>
        /\ \A o \in OrderIds :
              /\ orders[o].status = "delivered"
              /\ NumKeys(orders[o].cardKey) = 1
              /\ Len(orders[o].cardKey) = 1
        /\ \A a \in OrderIds, b \in OrderIds :
              a # b => orders[a].cardKey # orders[b].cardKey
        /\ \A c \in CardIds : cards[c].is_used = "true"
        /\ \A p \in Procs : result[p] = "processed"

\* C2 witness: all N calls have returned.
C2_Witness ==
    /\ Cardinality(Procs) = PoolN
    /\ \A p \in Procs : pc[p] = "done" /\ Len(cardKeys[p]) = 1

\* C3 (as claimed): for one orderId, cards are claimed from the pool by at most
\* one of the calls made for it.
C3_OneClaimPerOrder ==
    \A o \in OrderIds : Cardinality({r \in claims : r.order = o}) <= 1

\* C4 (as claimed): a call for an existing order that is already paid or
\* delivered, with a matching amount, returns already_processed whatever the
\* product kind.
C4_AlreadyProcessed ==
    \A p \in Procs :
        (/\ pc[p] = "done"
         /\ order[p] # NoOrder
         /\ order[p].status \in {"paid", "delivered"}
         /\ 100 * Abs(paidAmount[p] - parseFloat(order[p].amount)) <= 256)
        => result[p] = "already_processed"

\* a call that has read its order as paid or delivered is over, with nothing claimed
C5_Reprocess ==
    \A p \in Procs :
        (order[p] # NoOrder /\ order[p].status \in {"paid", "delivered"}) =>
            /\ pc[p] = "done"
            /\ issuerCalls[p] = <<>>
            /\ cardKeys[p] = <<>>
            /\ \A c \in CardIds : lockedBy[c] # p

\* the step of such a call changes no row and calls no issuer
C5_ReprocessStep ==
    \A p \in Procs :
        (/\ pc'[p] # pc[p]
         /\ order'[p] # NoOrder
         /\ order'[p].status \in {"paid", "delivered"})
        => /\ orders' = orders
           /\ cards' = cards
           /\ lockedBy' = lockedBy
           /\ newRow' = newRow
           /\ issued' = issued
           /\ issuerCalls' = issuerCalls

\* C5: re-processing is a no-op: a call that has read its order as paid or
\* delivered changes no card (is_used, reservation), no field of any order
\* (status, cardKey, tradeNo, paidAt, deliveredAt) and never calls the issuer.
C5_ReprocessIsNoOp == []C5_Reprocess /\ [][C5_ReprocessStep]_vars

\* C5 witness: a call has read a delivered card order, with the right amount, and returned.
C5_Witness ==
    \E p \in Procs :
        /\ pc[p] = "done"
        /\ orderId[p] = "o1"
        /\ order[p].status = "delivered"
        /\ result[p] = "already_processed"

\* C6 (as claimed): a card-pool call that claimed fewer cards than the quantity
\* returns success and leaves the order paid, not delivered, with exactly the
\* claimed keys in cardKey.
C6_PartialStockIsPaid ==
    \A p \in Procs :
        (/\ pc[p] = "done"
         /\ OnCardPath(p)
         /\ Len(cardKeys[p]) < Quantity(order[p]))
        => /\ result[p] = "processed"
           /\ orders[orderId[p]].status = "paid"
           /\ KeysOf(orders[orderId[p]].cardKey) = {cardKeys[p][k] : k \in 1..Len(cardKeys[p])}

\* a call is rejected for its amount exactly when the amount is more than 0.01
\* off (amounts in 1/256: |d|/256 > 1/100), and then it is over with nothing done
C7_Rejected ==
    \A p \in Procs :
        (pc[p] # "idle" /\ order[p] # NoOrder) =>
            /\ (100 * Abs(paidAmount[p] - parseFloat(order[p].amount)) > 256)
                  <=> (result[p] = "throw_amount_mismatch")
            /\ result[p] = "throw_amount_mismatch" =>
                  /\ pc[p] = "done"
                  /\ issuerCalls[p] = <<>>
                  /\ cardKeys[p] = <<>>
                  /\ \A c \in CardIds : lockedBy[c] # p
                  /\ orders[orderId[p]] = order[p]

\* the step that rejects changes no row and calls no issuer
C7_RejectedStep ==
    \A p \in Procs :
        (pc'[p] # pc[p] /\ result'[p] = "throw_amount_mismatch")
        => /\ orders' = orders
           /\ cards' = cards
           /\ lockedBy' = lockedBy
           /\ newRow' = newRow
           /\ issued' = issued
           /\ issuerCalls' = issuerCalls

\* C7: a paid amount more than 0.01 off the order amount makes the call fail, for
\* every status and product kind, with the order, every card and the issuer left
\* untouched; a paid amount at most 0.01 off is never rejected by the check.
C7_AmountCheck == []C7_Rejected /\ [][C7_RejectedStep]_vars

\* C7 witness: an underpaid call for a pending order was rejected.
C7_Witness ==
    \E p \in Procs :
        /\ pc[p] = "done"
        /\ result[p] = "throw_amount_mismatch"
        /\ order[p].status = "pending"
        /\ paidAmount[p] < parseFloat(order[p].amount)

\* C8: reserved-card precedence. Once the reserved statement of a card-pool call
\* has returned, every unused card reserved for its orderId is claimed by it; the
\* pool gives only the shortfall (quantity minus the reserved cards claimed),
\* nothing when the reserved cards cover the quantity; reserved keys come first.
C8_ReservedFirst ==
    \A p \in Procs :
        (pc[p] \in {"claimPool", "poolRow", "updateOrder", "commit"}
            /\ error[p] = NoError) =>
            /\ \A c \in CardIds :
                  (cards[c].reserved_order_id = orderId[p] /\ cards[c].is_used # "true")
                      => (lockedBy[c] = p /\ c \in resvKeys[p])
            /\ Cardinality(poolKeys[p]) + Cardinality(resvKeys[p]) <= Quantity(order[p])
                  \/ poolKeys[p] = {}
            /\ Cardinality(resvKeys[p]) >= Quantity(order[p]) => poolKeys[p] = {}
            /\ resvKeys[p] \cap poolKeys[p] = {}
            /\ \A k \in 1..Len(cardKeys[p]) :
                  k <= Cardinality(resvKeys[p])
                      <=> (\E c \in resvKeys[p] : cards[c].card_key = cardKeys[p][k])

\* C8 witness: a call claimed a reserved card and drew the shortfall from the pool.
C8_Witness ==
    \E p \in Procs :
        /\ pc[p] = "commit"
        /\ resvKeys[p] # {}
        /\ poolKeys[p] # {}
        /\ Cardinality(resvKeys[p]) + Cardinality(poolKeys[p]) = Quantity(order[p])

\* a delivered order stays delivered, a paid order becomes nothing but paid or delivered
C9_StatusStep ==
    \A o \in OrderIds :
        /\ orders[o].status = "delivered" => orders'[o].status = "delivered"
        /\ orders[o].status = "paid" => orders'[o].status \in {"paid", "delivered"}

\* C9 (as claimed): order status only moves forward: a delivered order is never
\* paid, pending or cancelled later, a paid order never pending or cancelled.
C9_StatusForward == [][C9_StatusStep]_vars

\* C10 (as claimed): in the external-token path, once the issuer has failed for
\* a unit no further issuer call is made and the order ends paid, not delivered,
\* whatever the index of the failing unit.
C10_IssuerFailureIsPaid ==
    \A p \in Procs :
        (/\ pc[p] = "done"
         /\ OnTokenPath(p)
         /\ \E k \in 1..Len(issuerCalls[p]) : ~issuerCalls[p][k])
        => /\ \A k \in 1..Len(issuerCalls[p]) : ~issuerCalls[p][k] => k = Len(issuerCalls[p])
           /\ orders[orderId[p]].status = "paid"

\* the step in which a call takes a card: a card reserved less than a minute ago
\* is taken only for the order it is reserved for, and a card drawn from the
\* general pool is of the order's product, unused, and unreserved or reserved
\* more than a minute ago
C11_ClaimStep ==
    \A p \in Procs, c \in CardIds :
        (lockedBy[c] # p /\ lockedBy'[c] = p) =>
            /\ (cards[c].reserved_order_id # NULL
                    /\ now - cards[c].reserved_at < ReservationTTL)
                  => cards[c].reserved_order_id = orderId[p]
            /\ c \in poolKeys'[p] =>
                  /\ cards[c].product_id = order[p].productId
                  /\ cards[c].is_used # "true"
                  /\ \/ cards[c].reserved_order_id = NULL
                     \/ now - cards[c].reserved_at > ReservationTTL

\* C11: a card under an unexpired reservation (less than 1 minute old) for one
\* order is never claimed by a fulfillment of another order; the general-pool
\* draw takes only unused cards of the order's product that are unreserved or
\* reserved more than 1 minute ago.
C11_ReservationRespected == [][C11_ClaimStep]_vars

\* C11 witness: a call short of its quantity drew from the pool a card whose
\* reservation for the other order had expired and left alone an unused card of
\* the product reserved for the other order no more than a minute ago.
C11_Witness ==
    \E p \in Procs, c \in CardIds, d \in CardIds :
        /\ pc[p] = "updateOrder"
        /\ c \in poolKeys[p]
        /\ cards[c].reserved_order_id \notin {NULL, orderId[p]}
        /\ Len(cardKeys[p]) < Quantity(order[p])
        /\ lockedBy[d] = 0
        /\ cards[d].product_id = order[p].productId
        /\ Unused(cards[d])
        /\ cards[d].reserved_order_id \notin {NULL, orderId[p]}
        /\ now - cards[d].reserved_at <= ReservationTTL

\* the error is none of those the catch of the reserved claim recognises: its
\* message names no reservation column and neither its code nor its detail
\* holds 42703
C12_Unrecognised(err) ==
    /\ err # NoError
    /\ err.code # "42703"
    /\ \A k \in 1..Len(err.detail) : err.detail[k] # "42703"
    /\ \A k \in 1..Len(err.message) : err.message[k] \notin {"reserved_order_id", "reserved_at"}

\* a call one of whose statements raised such an error is over and rejected, holds
\* no lock, has left no card used or rewritten and its order as it read it
C12_Failed ==
    \A p \in Procs :
        C12_Unrecognised(error[p]) =>
            /\ pc[p] = "done"
            /\ result[p] = "throw_db_error"
            /\ orders[orderId[p]] = order[p]
            /\ orderLock[orderId[p]] # p
            /\ \A c \in CardIds :
                  lockedBy[c] # p /\ newRow[c] = cards[c] /\ cards[c].is_used # "true"

\* the step that rejects a call changes no committed row; a committed card or
\* order changes only in the commit of a call that returns success, the cards
\* it marked used together with its order update
C12_Step ==
    /\ \A p \in Procs :
          (pc'[p] # pc[p] /\ result'[p] = "throw_db_error") =>
              /\ cards' = cards
              /\ orders' = orders
              /\ \A c \in CardIds : lockedBy'[c] # p /\ (lockedBy[c] = p => newRow'[c] = cards[c])
    /\ (cards' # cards \/ orders' # orders) =>
          \E p \in Procs :
              /\ pc[p] = "commit" /\ pc'[p] = "done" /\ result'[p] = "processed"
              /\ error[p] = NoError \/ ~C12_Unrecognised(error[p])
              /\ orders'[orderId[p]].status \in {"paid", "delivered"}
              /\ orders'[orderId[p]].tradeNo = tradeNo[p]
              /\ \A o \in OrderIds : o # orderId[p] => orders'[o] = orders[o]
              /\ \A c \in CardIds :
                    cards'[c] # cards[c] =>
                        /\ lockedBy[c] = p
                        /\ cards'[c].is_used = "true"
                        /\ orders'[orderId[p]].status = "delivered"
                        /\ cards[c].card_key \in KeysOf(orders'[orderId[p]].cardKey)

\* C12: the claim-and-mark sequence is all-or-nothing. A call whose reserved
\* claim, pool claim or order write fails with an error other than the recognised
\* schema mismatch is rejected, and leaves no card used or stripped of its
\* reservation and the order's status and cardKey unchanged; cards become used
\* only together with the committed order update.
C12_AllOrNothing == []C12_Failed /\ [][C12_Step]_vars

\* C12 witness: the order write failed after the call had marked a reserved card
\* and a pool card, and the call was rejected.
C12_Witness ==
    \E p \in Procs :
        /\ pc[p] = "done"
        /\ result[p] = "throw_db_error"
        /\ C12_Unrecognised(error[p])
        /\ resvKeys[p] # {}
        /\ poolKeys[p] # {}

\* a call that has read an order of the payment product never enters the card or
\* token path
C13_PaymentCall ==
    \A p \in Procs :
        (order[p] # NoOrder /\ isPaymentOrder(order[p].productId)) =>
            /\ pc[p] \in {"payUpdate", "done"}
            /\ cardKeys[p] = <<>> /\ tokenKeys[p] = <<>> /\ issuerCalls[p] = <<>>
            /\ \A c \in CardIds : lockedBy[c] # p
            /\ orders[orderId[p]].status # order[p].status =>
                  orders[orderId[p]] = [order[p] EXCEPT !.status = "paid", !.paidAt = Written,
                                                       !.tradeNo = tradeNo[p]]

\* every step of such a call leaves the cards and the issuer alone and changes
\* at most its own order, read as pending or cancelled: status to paid, paidAt
\* and tradeNo, nothing else
C13_PaymentStep ==
    \A p \in Procs :
        (pc'[p] # pc[p] /\ order'[p] # NoOrder /\ isPaymentOrder(order'[p].productId)) =>
            /\ cards' = cards
            /\ lockedBy' = lockedBy
            /\ newRow' = newRow
            /\ issued' = issued
            /\ issuerCalls' = issuerCalls
            /\ \A o \in OrderIds :
                  orders'[o] # orders[o] =>
                      /\ o = orderId[p]
                      /\ order[p].status \in {"pending", "cancelled"}
                      /\ orders'[o] = [orders[o] EXCEPT !.status = "paid", !.paidAt = Written,
                                                        !.tradeNo = tradeNo[p]]
                      /\ orders'[o].cardKey = <<>>

\* C13: for an order of the pure payment product the call only flips a pending
\* or cancelled order to paid (with paidAt and tradeNo): it marks no card used,
\* changes no reservation, sets neither cardKey nor delivered, and never calls
\* the token issuer.
C13_PaymentFrame == []C13_PaymentCall /\ [][C13_PaymentStep]_vars

\* C13 witness: a call has flipped a cancelled payment order to paid.
C13_Witness ==
    \E p \in Procs :
        /\ pc[p] = "done"
        /\ isPaymentOrder(order[p].productId)
        /\ order[p].status = "cancelled"
        /\ orders[orderId[p]].status = "paid"
        /\ orders[orderId[p]].tradeNo = tradeNo[p]

\* the tokens the issuer has created so far, in issue order
C14_Issued == [k \in 1..issued |-> TokenOf(k)]

\* C14: in the external-token path for an order with a userId, the issuer is
\* called at most quantity times, every call but the last one made succeeds (the
\* loop stops at the first failing unit), tokenKeys holds exactly the tokens
\* issued before that, in issue order, and the call returns success with those
\* tokens joined in the order's cardKey: an issuer failure never makes it throw.
C14_TokenLoop ==
    \A p \in Procs :
        (OnTokenPath(p) /\ order[p].userId # NULL /\ pc[p] \in {"tokenUpdate", "done"}) =>
            /\ Len(issuerCalls[p]) <= Quantity(order[p])
            /\ \A k \in 1..Len(issuerCalls[p]) : ~issuerCalls[p][k] => k = Len(issuerCalls[p])
            /\ Len(issuerCalls[p]) < Quantity(order[p]) =>
                  (issuerCalls[p] # <<>> /\ ~issuerCalls[p][Len(issuerCalls[p])])
            /\ issued = Cardinality({k \in 1..Len(issuerCalls[p]) : issuerCalls[p][k]})
            /\ tokenKeys[p] = C14_Issued
            /\ pc[p] = "done" =>
                  /\ result[p] = "processed"
                  /\ issued > 0 => orders[orderId[p]].cardKey = join(C14_Issued)
                  /\ issued > 0 => KeysOf(orders[orderId[p]].cardKey) =
                                       {TokenOf(k) : k \in 1..issued}
                  /\ issued = 0 => orders[orderId[p]].cardKey = order[p].cardKey

\* C14 witness: the issuer created the token of unit 1 and failed for unit 2,
\* and the call returned with one token recorded.
C14_Witness ==
    \E p \in Procs :
        /\ pc[p] = "done"
        /\ OnTokenPath(p)
        /\ issuerCalls[p] = <<TRUE, FALSE>>
        /\ orders[orderId[p]].cardKey = <<TokenOf(1)>>

\* C15 (as claimed): on a schema without the reservation columns the failure of
\* the reserved claim is not a failure of the call: it goes on with the
\* non-reserving query, claims up to quantity unused cards of the product,
\* commits, updates the order and returns success.
C15_LegacyShim ==
    \A p \in Procs :
        (legacy /\ pc[p] = "done" /\ OnCardPath(p)) =>
            /\ result[p] = "processed"
            /\ supportsReservation[p] = FALSE
            /\ orders[orderId[p]].status \in {"paid", "delivered"}
            /\ Len(cardKeys[p]) <= Quantity(order[p])


\* no set of calls waits for locks held inside the set, and a call at its
\* general-pool statement can always run it, whatever rows others hold
C16_NoDeadlock ==
    /\ \A W \in SUBSET Procs :
          W # {} => \E p \in W : WaitsFor(p) \notin W
    /\ \A p \in Procs :
          /\ (pc[p] = "claimPool" /\ ~TxAborted(p)) =>
                ENABLED ClaimPool(p)
          /\ pc[p] = "poolRow" =>
                ENABLED PoolRows(p)

\* C16 (as claimed): no blocking pile-up. Under fair scheduling every call that
\* has started eventually returns or throws; no set of calls deadlocks on card
\* or order row locks; the general-pool selection never waits for a locked card.
C16_NoPileUp ==
    /\ []C16_NoDeadlock
    /\ \A p \in 1..NumCalls : (pc[p] # "idle") ~> (pc[p] = "done")


\* the last call of getAdminJwt returned the cached credential at once exactly
\* when one was cached and the call came more than 1 hour before its recorded
\* expiry; otherwise it sent a login request when the credentials are configured
\* and threw without a request when they are not
C17_Call ==
    jwtCall # NoJwtCall =>
        LET jwt == jwtCall.was[1]
            expires == jwtCall.was[2]
            early == jwt # NULL /\ expires - jwtCall.at > RefreshMargin
        IN /\ early => (~jwtCall.login /\ jwtCall.result = jwt)
           /\ (~early /\ configured) => (jwtCall.login /\ jwtCall.result = NULL)
           /\ (~early /\ ~configured) => (~jwtCall.login /\ jwtCall.result = NULL)

\* a call that returns or throws at once gives the cached credential or the
\* configuration error and leaves the cache alone; the answer to a login request
\* either is a credential, which the call returns and which replaces the cached
\* one, with the expiry 23 hours later, or is a failure, and then the call throws
\* and the cache stays as it is; nothing else writes the cache
C17_Step ==
    /\ jwtCall' # jwtCall =>
          /\ cachedJwt' = cachedJwt /\ jwtExpiresAt' = jwtExpiresAt
          /\ \E p \in Procs :
                /\ pc[p] \in {"idle", "done"}
                /\ jwtCall'.login => (pc'[p] = "jwtLogin" /\ result'[p] = NULL)
                /\ ~jwtCall'.login =>
                      /\ pc'[p] = "done"
                      /\ result'[p] = IF jwtCall'.result # NULL THEN cachedJwt
                                      ELSE NotConfigured
    /\ \A p \in Procs :
          (pc[p] = "jwtLogin" /\ pc'[p] # "jwtLogin") =>
              /\ pc'[p] = "done"
              /\ \/ /\ result'[p] \in Jwts
                    /\ cachedJwt' = result'[p]
                    /\ jwtExpiresAt' = now + JwtLifetime
                 \/ /\ result'[p] = LoginFailed
                    /\ cachedJwt' = cachedJwt /\ jwtExpiresAt' = jwtExpiresAt
    /\ (cachedJwt' # cachedJwt \/ jwtExpiresAt' # jwtExpiresAt) =>
          \E p \in Procs : pc[p] = "jwtLogin" /\ result'[p] \in Jwts

\* C17: credential cache. getAdminJwt returns the cached credential without
\* logging in only while one is cached and the time is more than 1 hour before
\* its recorded expiry; from then on every call logs in (when the credentials
\* are configured); a successful login replaces the cached credential and its
\* expiry, a failed one throws and leaves both unchanged.
C17_CredentialCache == []C17_Call /\ [][C17_Step]_vars

\* C17 witness: a call made exactly 1 hour before the recorded expiry sent a
\* login request, and a login has replaced the cached credential by another.
C17_Witness ==
    /\ jwtCall.login
    /\ jwtCall.was[1] # NULL
    /\ jwtCall.was[2] - jwtCall.at = RefreshMargin
    /\ \E p \in Procs :
          /\ pc[p] = "done"
          /\ result[p] \in Jwts \ {jwtCall.was[1]}
          /\ cachedJwt = result[p]
          /\ jwtExpiresAt = now + JwtLifetime

\* C18 (as claimed): a card-pool call never consumes more cards than the order
\* asked for: the cards it marks used and the keys it writes to the order's
\* cardKey are at most quantity, however many cards are reserved for the order.
C18_AtMostQuantity ==
    \A p \in Procs :
        OnCardPath(p) =>
            /\ Cardinality({c \in CardIds : lockedBy[c] = p}) <= Quantity(order[p])
            /\ Len(cardKeys[p]) <= Quantity(order[p])
            /\ (pc[p] = "done" /\ result[p] = "processed") =>
                  /\ NumKeys(orders[orderId[p]].cardKey) <= Quantity(order[p])
                  /\ Cardinality({c \in CardIds :
                                    cards[c].is_used = "true"}) <= Quantity(order[p])

\* C19 (as claimed): every card consumed by a card-pool fulfillment is of the
\* order's product: a card a call holds, and a card whose key is in an order's
\* cardKey, has the productId of that order, whether it came from the
\* reserved-card reclaim or from the general pool.
C19_SameProduct ==
    /\ \A p \in Procs, c \in CardIds :
          lockedBy[c] = p => cards[c].product_id = order[p].productId
    /\ \A o \in OrderIds, c \in CardIds :
          cards[c].card_key \in KeysOf(orders[o].cardKey) =>
              cards[c].product_id = orders[o].productId

\* C20 (as claimed): no consumed card is orphaned: every card marked used has its
\* key in the cardKey of exactly one order, and every key in a card order's
\* cardKey is the key of a used card.
C20_NoOrphan ==
    /\ \A c \in CardIds :
          cards[c].is_used = "true" =>
              Cardinality({o \in OrderIds :
                              cards[c].card_key \in KeysOf(orders[o].cardKey)}) = 1
    /\ \A o \in OrderIds :
          \A key \in KeysOf(orders[o].cardKey) :
              \E c \in CardIds : cards[c].card_key = key /\ cards[c].is_used = "true"

====
